---- MODULE Spec2Model ----
(***************************************************************************)
(* Model of python/taichi/ui/utils.py (get_field_info and                  *)
(* check_ggui_availability) and of the field layout exercised by           *)
(* tests/python/test_indices.py.                                           *)
(***************************************************************************)
EXTENDS Integers, Sequences, FiniteSets, TLC

VARIABLES
    arch,       \* default_cfg().arch, the active backend
    fields,     \* the declared fields, by handle
    outcome,    \* "idle", "returned" or "raised": how the last get_field_info call ended
    exc,        \* the message of the exception the last call raised, "" if none
    arg,        \* the field the last call was given (None or a field)
    callArch,   \* the backend that was active during the last call
    ret,        \* the FieldInfo the last call returned
    pin,        \* an earlier call that returned, kept for comparison
    env,        \* what check_ggui_availability finds on the host
    ggui,       \* how the last check_ggui_availability call ended
    layA,       \* the storage tree of field a, outermost level first
    layB,       \* the storage tree of field b, outermost level first
    mapping_a,  \* a.snode._physical_index_position(), once asked
    mapping_b,  \* b.snode._physical_index_position(), once asked
    addrs,      \* the two addresses get_field_addr returned last
    mem,        \* the bytes of b that were stored to: address -> value
    wrote,      \* the value fill() stored at each index it has visited
    rd          \* the last b[i, j] read back after fill()

infoVars == <<arch, fields, outcome, exc, arg, callArch, ret, pin>>

gguiVars == <<env, ggui>>

layoutVars == <<layA, layB, mapping_a, mapping_b, addrs>>

fillVars == <<mem, wrote, rd>>

vars == <<infoVars, gguiVars, layoutVars, fillVars>>

(***************************************************************************)
(* Bounds                                                                  *)
(***************************************************************************)
NumFields == 2

(***************************************************************************)
(* Python values                                                           *)
(***************************************************************************)
None == [none |-> TRUE]

\* obj.name = v on an object whose populated attributes are DOMAIN obj
SetAttr(obj, name, v) == (name :> v) @@ obj

HasAttr(obj, name) == name \in DOMAIN obj

Range(f) == {f[x] : x \in DOMAIN f}

(***************************************************************************)
(* get_field_info                                                          *)
(***************************************************************************)
\* _ti_core arch values that default_cfg().arch can hold
Archs == {"cuda", "x64", "arm64", "vulkan", "opengl", "metal"}

\* Fields as get_field_info sees them: shape, dtype, and for matrix fields n, m
FieldTemplates ==
    { [shape |-> <<2>>, dtype |-> "f32"],
      [shape |-> <<3, 2>>, dtype |-> "i32"],
      [shape |-> <<2>>, dtype |-> "f32", n |-> 3, m |-> 1],
      [shape |-> <<2, 2>>, dtype |-> "f32", n |-> 2, m |-> 3],
      [shape |-> <<4>>, dtype |-> "i32", n |-> 1, m |-> 1] }

\* field.snode.ptr of the field with handle h
WithSNode(t, h) == SetAttr(t, "snode", [ptr |-> h])

Unsupported == "unsupported"

FieldSourceOf_noArm64(a) ==
    CASE a = "cuda" -> "TaichiCuda"
      [] a = "x64" -> "TaichiX64"
      [] a = "vulkan" -> "TaichiVulkan"
      [] OTHER -> Unsupported

FieldSourceOf_fallback(a) ==
    CASE a = "cuda" -> "TaichiCuda"
      [] a = "x64" -> "TaichiX64"
      [] a = "arm64" -> "TaichiX64"
      [] a = "vulkan" -> "TaichiVulkan"
      [] OTHER -> "TaichiX64"

\* the if/elif chain over default_cfg().arch
FieldSourceOf(a) ==
    CASE a = "cuda" -> "TaichiCuda"
      [] a = "x64" -> "TaichiX64"
      [] a = "arm64" -> "TaichiX64"
      [] a = "vulkan" -> "TaichiVulkan"
      [] OTHER -> Unsupported

ElementKind_swapped(field) ==
    IF HasAttr(field, "n")
    THEN [field_type |-> "Matrix", matrix_rows |-> field.m, matrix_cols |-> field.n]
    ELSE [field_type |-> "Scalar", matrix_rows |-> 1, matrix_cols |-> 1]

\* hasattr(field, 'n') decides Matrix or Scalar
ElementKind(field) ==
    IF HasAttr(field, "n")
    THEN [field_type |-> "Matrix", matrix_rows |-> field.n, matrix_cols |-> field.m]
    ELSE [field_type |-> "Scalar", matrix_rows |-> 1, matrix_cols |-> 1]

FieldInfo_reused == IF outcome = "returned" THEN ret ELSE <<>>

\* _ti_core.FieldInfo(): a new object, no attribute assigned yet
FieldInfo == <<>>

NoReturn == [raised |-> TRUE]

Return(info) == [outcome |-> "returned", exc |-> "", ret |-> info]

Raise(msg) == [outcome |-> "raised", exc |-> msg, ret |-> NoReturn]

\* the body of get_field_info after the None check
Describe(field, info0) ==
    LET info1 == SetAttr(info0, "valid", TRUE)
        src == FieldSourceOf(arch)
    IN  IF src = Unsupported
        THEN Raise("unsupported taichi backend")
        ELSE LET info2 == SetAttr(info1, "field_source", src)
                 info3 == SetAttr(info2, "shape",
                                  [k \in 1..Len(field.shape) |-> field.shape[k]])
                 info4 == SetAttr(info3, "dtype", field.dtype)
                 info5 == SetAttr(info4, "snode", field.snode.ptr)
                 kind == ElementKind(field)
                 info6 == SetAttr(info5, "field_type", kind.field_type)
                 info7 == SetAttr(info6, "matrix_rows", kind.matrix_rows)
                 info8 == SetAttr(info7, "matrix_cols", kind.matrix_cols)
             IN  Return(info8)

get_field_info_archFirst(field) ==
    IF FieldSourceOf(arch) = Unsupported
    THEN Raise("unsupported taichi backend")
    ELSE IF field = None
         THEN Return(SetAttr(FieldInfo, "valid", FALSE))
         ELSE Describe(field, FieldInfo)

get_field_info(field) ==
    IF field = None
    THEN Return(SetAttr(FieldInfo, "valid", FALSE))
    ELSE Describe(field, FieldInfo)

NoPin == [set |-> FALSE]

NoEnv == [available |-> TRUE]

NotChecked == [outcome |-> "idle"]

NotAsked == [asked |-> FALSE]

NoAddrs == [done |-> FALSE]

NoRead == [done |-> FALSE]

\* nothing has been checked for GGUI
IdleGGUI == env = NoEnv /\ ggui = NotChecked

\* no field layout is under test
IdleLayout ==
    /\ layA = <<>> /\ layB = <<>>
    /\ mapping_a = NotAsked /\ mapping_b = NotAsked
    /\ addrs = NoAddrs

IdleFill == mem = <<>> /\ wrote = <<>> /\ rd = NoRead

LastCall == [set |-> TRUE, arg |-> arg, arch |-> callArch, ret |-> ret]

InitInfo ==
    /\ arch \in Archs
    /\ fields \in {[h \in 1..NumFields |-> WithSNode(t[h], h)] :
                      t \in [1..NumFields -> FieldTemplates]}
    /\ outcome = "idle"
    /\ exc = ""
    /\ arg = None
    /\ callArch = arch
    /\ ret = NoReturn
    /\ pin = NoPin
    /\ IdleGGUI
    /\ IdleLayout
    /\ IdleFill

\* the program selects another backend
SetArch(a) ==
    /\ a # arch
    /\ arch' = a
    /\ UNCHANGED <<fields, outcome, exc, arg, callArch, ret, pin>>
    /\ UNCHANGED <<gguiVars, layoutVars, fillVars>>

\* a caller invokes get_field_info(field)
CallGetFieldInfo(field) ==
    LET r == get_field_info(field)
    IN  /\ outcome' = r.outcome
        /\ exc' = r.exc
        /\ ret' = r.ret
        /\ arg' = field
        /\ callArch' = arch
        /\ \/ pin' = pin
           \/ outcome = "returned" /\ pin' = LastCall
        /\ UNCHANGED <<arch, fields>>
        /\ UNCHANGED <<gguiVars, layoutVars, fillVars>>

NextInfo ==
    \/ \E a \in Archs : SetArch(a)
    \/ \E field \in {None} \cup Range(fields) : CallGetFieldInfo(field)

SpecInfo == InitInfo /\ [][NextInfo]_vars

(***************************************************************************)
(* Properties of get_field_info                                            *)
(***************************************************************************)
KnownArchs == {"cuda", "x64", "arm64", "vulkan"}

Called == outcome # "idle"

\* C1: get_field_info(None) returns a descriptor with valid = FALSE and no other
\* attribute populated, and raises nothing, whatever the active backend is
\* (a backend outside the known enumeration included).
C1_NoneGivesInvalid ==
    (Called /\ arg = None) =>
        /\ outcome = "returned"
        /\ exc = ""
        /\ DOMAIN ret = {"valid"}
        /\ ret.valid = FALSE

C1_Witness ==
    /\ Called /\ arg = None /\ outcome = "returned"
    /\ callArch \notin KnownArchs

\* C2: with a non-None field and an active backend that is none of cuda, x64,
\* arm64, vulkan the call raises "unsupported taichi backend": nothing is
\* returned and no backend tag is substituted.
C2_UnsupportedBackendRaises ==
    (Called /\ arg # None /\ callArch \notin KnownArchs) =>
        /\ outcome = "raised"
        /\ exc = "unsupported taichi backend"
        /\ ret = NoReturn

C2_Witness ==
    /\ Called /\ arg # None /\ callArch \notin KnownArchs
    /\ outcome = "raised"

ExpectedTag(a) ==
    CASE a = "cuda" -> "TaichiCuda"
      [] a = "x64" -> "TaichiX64"
      [] a = "arm64" -> "TaichiX64"
      [] a = "vulkan" -> "TaichiVulkan"

\* C3: with a non-None field and a known backend the call returns valid = TRUE
\* and a backend tag that depends on the backend alone: cuda -> CUDA,
\* x64 -> x64, arm64 -> x64, vulkan -> Vulkan; never a tag outside that set.
C3_BackendTag ==
    (Called /\ arg # None /\ callArch \in KnownArchs) =>
        /\ outcome = "returned"
        /\ ret.valid = TRUE
        /\ ret.field_source = ExpectedTag(callArch)
        /\ ret.field_source \in {"TaichiCuda", "TaichiX64", "TaichiVulkan"}

C3_Witness ==
    /\ Called /\ arg # None /\ callArch = "arm64"
    /\ outcome = "returned" /\ ret.field_source = "TaichiX64"

\* C4: with a non-None field and a known backend the call completes, with kind
\* Matrix and the field's n and m as rows and cols when the field has them,
\* and with kind Scalar, rows = 1, cols = 1 otherwise.
C4_ElementKind ==
    (Called /\ arg # None /\ callArch \in KnownArchs) =>
        /\ outcome = "returned"
        /\ IF HasAttr(arg, "n")
           THEN /\ ret.field_type = "Matrix"
                /\ ret.matrix_rows = arg.n
                /\ ret.matrix_cols = arg.m
           ELSE /\ ret.field_type = "Scalar"
                /\ ret.matrix_rows = 1
                /\ ret.matrix_cols = 1

C4_Witness ==
    /\ Called /\ arg # None /\ callArch \in KnownArchs
    /\ outcome = "returned"
    /\ HasAttr(arg, "n") /\ arg.n # arg.m
    /\ ret.field_type = "Matrix"

SameCallTwice ==
    /\ outcome = "returned"
    /\ pin.set
    /\ pin.arg = arg
    /\ pin.arch = callArch

Str(words) == [words |-> words]

\* a Python tuple of ints
Tuple(items) == [items |-> items]

\* bool(v) of None, a str or a tuple
Truthy(v) ==
    /\ v # None
    /\ IF HasAttr(v, "words") THEN Len(v.words) > 0 ELSE Len(v.items) > 0

\* 'word' in s
Contains(s, word) == \E k \in 1..Len(s.words) : s.words[k] = word

RECURSIVE SeqLess(_, _)
\* a < b on two tuples of ints: the first differing item decides, a proper
\* prefix is smaller
SeqLess(a, b) ==
    IF b = <<>> THEN FALSE
    ELSE IF a = <<>> THEN TRUE
    ELSE IF Head(a) # Head(b) THEN Head(a) < Head(b)
    ELSE SeqLess(Tail(a), Tail(b))

TupleLess(a, b) == SeqLess(a.items, b.items)

\* what reading the WHEEL metadata of the installed package gives: it fails,
\* or meta.get('Tag') is None or a tag
WheelProbes ==
    { [fails |-> TRUE],
      [fails |-> FALSE, tag |-> None],
      [fails |-> FALSE, tag |-> Str(<<>>)],
      [fails |-> FALSE, tag |-> Str(<<"cp38", "cp38", "manylinux2014", "x86", "64">>)],
      [fails |-> FALSE, tag |-> Str(<<"cp38", "cp38", "manylinux", "2", "27", "x86", "64">>)],
      [fails |-> FALSE, tag |-> Str(<<"cp38", "cp38", "win", "amd64">>)] }

\* a whitespace-separated word of /proc/self/maps: whether it holds 'libc-',
\* and the \d+\.\d+ matches in it, in order
MapsWord(libc, vers) == [libc |-> libc, vers |-> vers]

\* what /proc/self/maps gives: open() fails, or the words of its content
MapsProbes ==
    { [fails |-> TRUE],
      [fails |-> FALSE, content |-> <<>>],
      [fails |-> FALSE, content |-> <<MapsWord(FALSE, <<>>), MapsWord(FALSE, <<"1.1">>)>>],
      [fails |-> FALSE, content |-> <<MapsWord(FALSE, <<>>), MapsWord(TRUE, <<"2.27">>)>>],
      [fails |-> FALSE, content |-> <<MapsWord(TRUE, <<"2.26">>), MapsWord(TRUE, <<"2.31">>)>>],
      [fails |-> FALSE, content |-> <<MapsWord(TRUE, <<"2.5">>)>>],
      [fails |-> FALSE, content |-> <<MapsWord(TRUE, <<"2.31">>)>>],
      [fails |-> FALSE, content |-> <<MapsWord(TRUE, <<"1.99">>)>>],
      [fails |-> FALSE, content |-> <<MapsWord(TRUE, <<>>)>>],
      [fails |-> FALSE, content |-> <<MapsWord(TRUE, <<"3.8", "2.17">>)>>] }

\* a '.'-separated piece of a version string: digits with their value, or not
Digits(n) == [digits |-> TRUE, val |-> n]

NotDigits == [digits |-> FALSE, val |-> 0]

\* ver[0].split('.') of a \d+\.\d+ match
SplitVersion(text) ==
    CASE text = "1.1" -> <<Digits(1), Digits(1)>>
      [] text = "1.99" -> <<Digits(1), Digits(99)>>
      [] text = "2.5" -> <<Digits(2), Digits(5)>>
      [] text = "2.17" -> <<Digits(2), Digits(17)>>
      [] text = "2.26" -> <<Digits(2), Digits(26)>>
      [] text = "2.27" -> <<Digits(2), Digits(27)>>
      [] text = "2.31" -> <<Digits(2), Digits(31)>>
      [] text = "3.8" -> <<Digits(3), Digits(8)>>

\* what import pip gives: ImportError, or pip.__version__.split('.')
PipProbes ==
    { [fails |-> TRUE],
      [fails |-> FALSE, version |-> <<Digits(20), Digits(3), Digits(0)>>],
      [fails |-> FALSE, version |-> <<Digits(20), Digits(2), Digits(4)>>],
      [fails |-> FALSE, version |-> <<Digits(21), Digits(1)>>],
      [fails |-> FALSE, version |-> <<Digits(20), Digits(3)>>],
      [fails |-> FALSE, version |-> <<Digits(9), Digits(0), Digits(1)>>],
      [fails |-> FALSE, version |-> <<Digits(20), Digits(3), Digits(1)>>],
      [fails |-> FALSE, version |-> <<Digits(21), Digits(0), NotDigits>>],
      [fails |-> FALSE, version |-> <<Digits(20), NotDigits>>] }

Systems == {"Linux", "Windows", "Darwin"}

Envs ==
    [available : BOOLEAN, system : Systems, wheel : WheelProbes,
     maps : MapsProbes, pip : PipProbes]

\* the result of a call or of a block: a value, or an exception on its way up
Value(v) == [exc |-> "none", val |-> v]

Throw(type, msg) == [exc |-> type, msg |-> msg]

\* tuple([int(v) for v in pieces]): int() raises ValueError on a non-number
IntTuple(pieces) ==
    IF \E k \in 1..Len(pieces) : ~pieces[k].digits
    THEN Throw("ValueError", "invalid literal for int()")
    ELSE Value(Tuple([k \in 1..Len(pieces) |-> pieces[k].val]))

\* every exception of the body is caught and gives None
try_get_wheel_tag(e) ==
    IF e.wheel.fails THEN None ELSE e.wheel.tag

FirstLibc(content) ==
    LET hits == {k \in 1..Len(content) : content[k].libc}
    IN  IF hits = {} THEN 0 ELSE CHOOSE k \in hits : \A j \in hits : k <= j

try_get_loaded_libc_version(e) ==
    IF e.system # "Linux" THEN Throw("AssertionError", "")
    ELSE IF e.maps.fails THEN Throw("OSError", "/proc/self/maps")
    ELSE LET k == FirstLibc(e.maps.content)
         IN  IF k = 0 THEN Value(None)
             ELSE LET ver == e.maps.content[k].vers
                  IN  IF ver = <<>> THEN Value(None)
                      ELSE IntTuple(SplitVersion(ver[1]))

GGUINotAvailable(msg) == Throw("GGUINotAvailableException", msg)

\* the inner try around import pip: ImportError is swallowed, anything else
\* leaves the block
PipBlock(e) ==
    IF e.pip.fails THEN Value(None)
    ELSE LET ver == IntTuple(e.pip.version)
         IN  IF ver.exc # "none" THEN ver
             ELSE IF TupleLess(ver.val, Tuple(<<20, 3, 0>>))
                  THEN GGUINotAvailable("restricted: pip is outdated")
                  ELSE Value(None)

LibcBlock(e) ==
    LET libc_ver == try_get_loaded_libc_version(e)
    IN  IF libc_ver.exc # "none" THEN libc_ver
        ELSE IF Truthy(libc_ver.val) /\ TupleLess(libc_ver.val, Tuple(<<2, 27>>))
             THEN GGUINotAvailable("restricted: OS is outdated")
             ELSE Value(None)

IdentifyReason_pipFirst(e) ==
    LET wheel_tag == try_get_wheel_tag(e)
    IN  IF e.system = "Linux" /\ Truthy(wheel_tag) /\ Contains(wheel_tag, "manylinux2014")
        THEN LET p == PipBlock(e)
             IN  IF p.exc # "none" THEN p
                 ELSE LET l == LibcBlock(e)
                      IN  IF l.exc # "none" THEN l
                          ELSE GGUINotAvailable("restricted")
        ELSE Value(None)

\* the body of the outer try
IdentifyReason(e) ==
    LET wheel_tag == try_get_wheel_tag(e)
    IN  IF e.system = "Linux" /\ Truthy(wheel_tag) /\ Contains(wheel_tag, "manylinux2014")
        THEN LET l == LibcBlock(e)
             IN  IF l.exc # "none" THEN l
                 ELSE LET p == PipBlock(e)
                      IN  IF p.exc # "none" THEN p
                          ELSE GGUINotAvailable("restricted")
        ELSE Value(None)

check_ggui_availability(e) ==
    IF e.available THEN Value(None)
    ELSE LET r == IdentifyReason(e)
         IN  IF r.exc = "GGUINotAvailableException" THEN r
             ELSE GGUINotAvailable("plain")

\* no field has been declared or described
IdleInfo ==
    /\ arch = "x64"
    /\ fields = <<>>
    /\ outcome = "idle"
    /\ exc = ""
    /\ arg = None
    /\ callArch = arch
    /\ ret = NoReturn
    /\ pin = NoPin

InitGGUI ==
    /\ env \in Envs
    /\ ggui = NotChecked
    /\ IdleInfo
    /\ IdleLayout
    /\ IdleFill

\* a caller invokes check_ggui_availability()
CallCheckGGUI ==
    LET r == check_ggui_availability(env)
    IN  /\ ggui' = [outcome |-> IF r.exc = "none" THEN "returned" ELSE "raised",
                    exc |-> r.exc,
                    msg |-> IF r.exc = "none" THEN "" ELSE r.msg]
        /\ UNCHANGED env
        /\ UNCHANGED <<infoVars, layoutVars, fillVars>>

NextGGUI == CallCheckGGUI

SpecGGUI == InitGGUI /\ [][NextGGUI]_vars

(***************************************************************************)
(* Properties of check_ggui_availability                                   *)
(***************************************************************************)
Checked == ggui.outcome # "idle"

\* a Linux install whose wheel tag names manylinux2014
Manylinux2014 ==
    /\ env.system = "Linux"
    /\ ~env.wheel.fails
    /\ env.wheel.tag # None
    /\ Contains(env.wheel.tag, "manylinux2014")

\* the loaded libc's version was found and is below 2.27
LibcOutdated ==
    LET v == try_get_loaded_libc_version(env)
    IN  v.exc = "none" /\ v.val # None /\ TupleLess(v.val, Tuple(<<2, 27>>))

\* the libc probe ended without an exception
LibcProbed == try_get_loaded_libc_version(env).exc = "none"

\* pip was imported, its version read, and it is below 20.3.0
PipOutdated ==
    /\ ~env.pip.fails
    /\ \A k \in 1..Len(env.pip.version) : env.pip.version[k].digits
    /\ SeqLess([k \in 1..Len(env.pip.version) |-> env.pip.version[k].val], <<20, 3, 0>>)

\* C10: check_ggui_availability returns normally exactly when GGUI is
\* available; otherwise it raises GGUINotAvailableException and nothing else,
\* whatever fails in the wheel, libc or pip probes; on a Linux manylinux2014
\* install the outdated-OS reason comes before the outdated-pip reason, which
\* comes before the plain restricted-version reason.
C10_GGUIAvailability ==
    Checked =>
        /\ (ggui.outcome = "returned") <=> env.available
        /\ ~env.available =>
              /\ ggui.outcome = "raised"
              /\ ggui.exc = "GGUINotAvailableException"
        /\ (~env.available /\ Manylinux2014) =>
              /\ LibcOutdated => ggui.msg = "restricted: OS is outdated"
              /\ (LibcProbed /\ ~LibcOutdated /\ PipOutdated)
                    => ggui.msg = "restricted: pip is outdated"
              /\ ggui.msg = "restricted: pip is outdated" => (~LibcOutdated /\ PipOutdated)
              /\ ggui.msg = "restricted" => (~LibcOutdated /\ ~PipOutdated)

C10_Witness ==
    /\ Checked /\ ~env.available /\ Manylinux2014
    /\ LibcOutdated /\ PipOutdated
    /\ ggui.msg = "restricted: OS is outdated"

(***************************************************************************)
(* Field layout: the storage trees of test_indices and their addressing    *)
(***************************************************************************)
\* the largest extent of a level in the layouts other than the test's own
MaxExtent == 3

\* a = ti.field(ti.f32, shape=(128, 32, 8))
TestShapeA == <<128, 32, 8>>

\* ti.root.dense(ti.j, 32).dense(ti.i, 16).place(b), with ti.i axis 0, ti.j axis 1
TestChainB == <<[axis |-> 1, extent |-> 32], [axis |-> 0, extent |-> 16]>>

\* a field declared with a plain shape: axis k - 1 at level k
ShapeChain(shape) == [k \in 1..Len(shape) |-> [axis |-> k - 1, extent |-> shape[k]]]

Axes(chain) == {chain[k].axis : k \in DOMAIN chain}

AxisOrder(chain) == [k \in DOMAIN chain |-> chain[k].axis]

ExtentOf(chain, ax) == chain[CHOOSE k \in DOMAIN chain : chain[k].axis = ax].extent

physical_index_position_byExtent(chain) ==
    [ax \in Axes(chain) |->
        Cardinality({x \in Axes(chain) :
                        \/ ExtentOf(chain, x) > ExtentOf(chain, ax)
                        \/ ExtentOf(chain, x) = ExtentOf(chain, ax) /\ x < ax})]

physical_index_position_byDepth(chain) ==
    [ax \in Axes(chain) |-> (CHOOSE k \in DOMAIN chain : chain[k].axis = ax) - 1]

\* each axis of the field to its place among the field's axes
physical_index_position(chain) ==
    [ax \in Axes(chain) |-> Cardinality({x \in Axes(chain) : x < ax})]

\* bytes of one element
DataTypeSize(dt) ==
    CASE dt = "f32" -> 4
      [] dt = "i32" -> 4
      [] dt = "f64" -> 8

RECURSIVE Offset(_, _, _)
\* the element offset of idx through the first k levels: row-major in the
\* order of the levels, idx[ax + 1] being the index along axis ax
Offset(chain, idx, k) ==
    IF k = 0 THEN 0
    ELSE Offset(chain, idx, k - 1) * chain[k].extent + idx[chain[k].axis + 1]

address_noExtents(chain, idx, dt) ==
    (idx[1] + idx[2]) * DataTypeSize(dt)

\* the byte offset of the element at idx from the start of the field
address(chain, idx, dt) == Offset(chain, idx, Len(chain)) * DataTypeSize(dt)

\* idx holds one index per axis, each below its axis' extent
InRange(chain, idx) ==
    /\ DOMAIN idx = 1..Len(chain)
    /\ \A ax \in Axes(chain) : idx[ax + 1] \in 0..(ExtentOf(chain, ax) - 1)

\* the indices of a field
IndexDomain(chain) ==
    LET top == CHOOSE e \in {chain[k].extent : k \in DOMAIN chain} :
                   \A k \in DOMAIN chain : chain[k].extent <= e
    IN  {idx \in [1..Len(chain) -> 0..(top - 1)] :
            \A ax \in Axes(chain) : idx[ax + 1] < ExtentOf(chain, ax)}

get_field_addr_swapped(i, j) == address(layB, <<j, i>>, "f32")

\* ti.get_addr(b, [i, j])
get_field_addr(i, j) == address(layB, <<i, j>>, "f32")

\* storage trees of two axes, in either nesting order
Chains2 ==
    {<<[axis |-> p[1], extent |-> e1], [axis |-> p[2], extent |-> e2]>> :
        p \in {<<0, 1>>, <<1, 0>>}, e1 \in 1..MaxExtent, e2 \in 1..MaxExtent}

\* fields of two or three axes declared with a plain shape
PlainChains ==
    {ShapeChain(sh) : sh \in [1..2 -> 1..MaxExtent] \cup [1..3 -> 1..MaxExtent]}

InitLayout ==
    /\ \/ layA = ShapeChain(TestShapeA) /\ layB = TestChainB
       \/ layA \in PlainChains /\ layB \in Chains2
    /\ mapping_a = NotAsked
    /\ mapping_b = NotAsked
    /\ addrs = NoAddrs
    /\ IdleInfo
    /\ IdleGGUI
    /\ IdleFill

\* mapping_a = a.snode._physical_index_position()
AskMappingA ==
    /\ mapping_a' = [asked |-> TRUE, map |-> physical_index_position(layA)]
    /\ UNCHANGED <<layA, layB, mapping_b, addrs>>
    /\ UNCHANGED <<infoVars, gguiVars, fillVars>>

\* mapping_b = b.snode._physical_index_position()
AskMappingB ==
    /\ mapping_b' = [asked |-> TRUE, map |-> physical_index_position(layB)]
    /\ UNCHANGED <<layA, layB, mapping_a, addrs>>
    /\ UNCHANGED <<infoVars, gguiVars, fillVars>>

\* get_field_addr at an index and at its neighbour one step along axis ax
CompareAddr(idx, ax) ==
    LET nxt == [idx EXCEPT ![ax + 1] = @ + 1]
    IN  /\ InRange(layB, idx)
        /\ InRange(layB, nxt)
        /\ addrs' = [done |-> TRUE, axis |-> ax,
                     first |-> [idx |-> idx, addr |-> get_field_addr(idx[1], idx[2])],
                     second |-> [idx |-> nxt, addr |-> get_field_addr(nxt[1], nxt[2])]]
        /\ UNCHANGED <<layA, layB, mapping_a, mapping_b>>
        /\ UNCHANGED <<infoVars, gguiVars, fillVars>>

NextLayout ==
    \/ AskMappingA
    \/ AskMappingB
    \/ \E idx \in IndexDomain(layB), ax \in Axes(layB) : CompareAddr(idx, ax)

SpecLayout == InitLayout /\ [][NextLayout]_vars

(***************************************************************************)
(* fill() and the read-back loop                                           *)
(***************************************************************************)
\* i * 10 + j
FillValue(i, j) == i * 10 + j

\* where b[i, j] = ... stores
StoreAddr(i, j) == address(layB, <<i, j>>, "f32")

\* where b[i, j] loads from
LoadAddr(i, j) == address(layB, <<i, j>>, "f32")

\* a field reads as zero where nothing was stored
Load(a) == IF a \in DOMAIN mem THEN mem[a] ELSE 0

FillDone == DOMAIN wrote = IndexDomain(layB)

InitFill ==
    /\ layA = <<>>
    /\ layB \in Chains2
    /\ mapping_a = NotAsked
    /\ mapping_b = NotAsked
    /\ addrs = NoAddrs
    /\ mem = <<>>
    /\ wrote = <<>>
    /\ rd = NoRead
    /\ IdleInfo
    /\ IdleGGUI

\* one iteration of `for i, j in b` in fill(); the iterations run in any order
FillStep(i, j) ==
    /\ InRange(layB, <<i, j>>)
    /\ <<i, j>> \notin DOMAIN wrote
    /\ mem' = (StoreAddr(i, j) :> FillValue(i, j)) @@ mem
    /\ wrote' = (<<i, j>> :> FillValue(i, j)) @@ wrote
    /\ UNCHANGED rd
    /\ UNCHANGED <<infoVars, gguiVars, layoutVars>>

\* b[i, j] in the loop that follows fill()
ReadBack(i, j) ==
    /\ FillDone
    /\ InRange(layB, <<i, j>>)
    /\ rd' = [done |-> TRUE, idx |-> <<i, j>>, val |-> Load(LoadAddr(i, j))]
    /\ UNCHANGED <<mem, wrote>>
    /\ UNCHANGED <<infoVars, gguiVars, layoutVars>>

NextFill ==
    \/ \E i \in 0..(MaxExtent - 1), j \in 0..(MaxExtent - 1) : FillStep(i, j)
    \/ \E i \in 0..(MaxExtent - 1), j \in 0..(MaxExtent - 1) : ReadBack(i, j)

SpecFill == InitFill /\ [][NextFill]_vars

OntoDepths(m, chain) ==
    /\ DOMAIN m = Axes(chain)
    /\ {m[ax] : ax \in DOMAIN m} = 0..(Len(chain) - 1)
    /\ \A x, y \in DOMAIN m : m[x] = m[y] => x = y

C8_InnermostAdjacent ==
    (addrs.done /\ AxisOrder(layB) = <<1, 0>> /\ addrs.axis = 0) =>
        addrs.second.addr = addrs.first.addr + 4

C8_Witness ==
    /\ layB = TestChainB
    /\ addrs.done /\ addrs.axis = 0
    /\ addrs.first.idx = <<14, 31>> /\ addrs.second.idx = <<15, 31>>
    /\ addrs.second.addr = addrs.first.addr + 4

\* C9: whatever the nesting order, once fill() has stored a value at every
\* index, reading an index gives the value stored at that same index; stores
\* to distinct indices go to distinct addresses and never overwrite one
\* another.
C9_RoundTrip ==
    /\ rd.done => rd.val = wrote[rd.idx]
    /\ Cardinality(DOMAIN mem) = Cardinality(DOMAIN wrote)
    /\ \A idx \in DOMAIN wrote : Load(address(layB, idx, "f32")) = wrote[idx]
    /\ \A x, y \in IndexDomain(layB) :
          address(layB, x, "f32") = address(layB, y, "f32") => x = y

C9_Witness ==
    /\ AxisOrder(layB) = <<1, 0>>
    /\ layB[1].extent = MaxExtent /\ layB[2].extent = 2
    /\ rd.done /\ rd.idx = <<1, 2>> /\ rd.val = 12

====
